---- MODULE Spec2Model ----
(***************************************************************************)
(* Model of pixee-actions:                                                 *)
(*   - src/src/github.ts: getGitHubContext, the event-context normalizer   *)
(*     (specification Spec);                                               *)
(*   - src/src/trigger-pr-analysis.ts run() together with                  *)
(*     src/unnamed/part_000 triggerPrAnalysis (specification SpecRun).     *)
(*                                                                         *)
(* JavaScript values are encoded as follows.  A string that the code       *)
(* slices or parses (the ref, the 'pr-number' input) is a sequence of      *)
(* one-character strings.  A value that may be undefined is a sequence of  *)
(* length at most one: <<>> is undefined, <<v>> is v.  NaN, the other      *)
(* result of parseInt, is likewise <<>>.  An object is a function from     *)
(* its own keys to values, so that "the record has no prNumber field" is   *)
(* "prNumber" \notin DOMAIN r, which differs from r.prNumber = undefined.  *)
(***************************************************************************)
EXTENDS Integers, Sequences, FiniteSets, TLC

VARIABLES
  context,      \* github.context: eventName, ref, sha, repo, issue, payload
  inputs,       \* core.getInput values: token, and pr_number for "pr-number"
  pc,           \* position of getGitHubContext: init, awaiting, returned, rejected
  apiCalls,     \* requests issued to octokit.rest.pulls.get, in order
  apiState,     \* the pulls.get promise: none, pending, fulfilled, rejected
  apiResponse,  \* <<response>> once pulls.get has fulfilled
  result,       \* the GitHubContext the promise resolved with (pc = "returned")
  error,        \* what the promise rejected with (pc = "rejected")
  env,          \* entry point: results of the ./util helpers in this run
  rpc,          \* entry point: position of run()
  outputs,      \* entry point: core.setOutput values
  failures,     \* entry point: core.setFailed reports, in order
  triggerCalls, \* entry point: arguments of the triggerPrAnalysis calls
  tpc,          \* entry point: position of triggerPrAnalysis' promise chain
  posts         \* entry point: axios.post requests issued

nvars == <<context, inputs, pc, apiCalls, apiState, apiResponse, result, error>>
rvars == <<env, rpc, outputs, failures, triggerCalls, tpc, posts>>
vars == <<context, inputs, pc, apiCalls, apiState, apiResponse, result, error,
          env, rpc, outputs, failures, triggerCalls, tpc, posts>>

-----------------------------------------------------------------------------
(* Bounds *)

\* pull request / issue numbers range over 1..MaxPr
MaxPr == 3
\* a check run's pull_requests array has at most MaxPulls entries
MaxPulls == 2

-----------------------------------------------------------------------------
(* Values *)

Undefined == <<>>
Some(v) == <<v>>
IsDefined(o) == o # <<>>

NaN == <<>>

RefsHeads == <<"r","e","f","s","/","h","e","a","d","s","/">>
RefsTags == <<"r","e","f","s","/","t","a","g","s","/">>
Main == <<"m","a","i","n">>
Develop == <<"d","e","v","e","l","o","p">>
FeatureX == <<"f","e","a","t","u","r","e","-","x">>

\* refs a workflow can be dispatched on: branches and tags
Refs ==
  { RefsHeads \o Main,
    RefsHeads \o Develop,
    RefsHeads \o FeatureX,
    RefsHeads \o Main \o <<"2">>,
    RefsTags \o <<"v","1">>,
    RefsTags \o <<"v">> \o Main,
    RefsTags \o <<"a">> \o Develop }

\* values of the 'pr-number' input
PrInputs ==
  { <<>>, <<"1">>, <<"2">>, <<"1","2">>, <<" ","3">>, <<"2","a">>, <<"a","b">>, <<"-","1">> }

Shas == {"abc123", "def456"}

Repos == { [owner |-> "pixee", repo |-> "pixee-actions"],
           [owner |-> "acme", repo |-> "web"] }

OtherEvents == {"push", "issue_comment"}

ApiErrors == {"network", "auth", "404"}

\* sequences over S of length lo..hi
SeqsOf(S, lo, hi) == UNION { [1..n -> S] : n \in lo..hi }

-----------------------------------------------------------------------------
(* String functions of the JavaScript runtime used by github.ts *)

\* String.prototype.substring(start): the characters from index start (0-based) on
substring(s, start) == SubSeq(s, start + 1, Len(s))

DigitVal == "0" :> 0 @@ "1" :> 1 @@ "2" :> 2 @@ "3" :> 3 @@ "4" :> 4 @@
            "5" :> 5 @@ "6" :> 6 @@ "7" :> 7 @@ "8" :> 8 @@ "9" :> 9

RECURSIVE TrimStart(_)
TrimStart(s) == IF s # <<>> /\ Head(s) = " " THEN TrimStart(Tail(s)) ELSE s

RECURSIVE ParseDigits(_, _, _)
\* reads the longest prefix of decimal digits; <<>> when there is none
ParseDigits(s, acc, seen) ==
  IF s # <<>> /\ Head(s) \in DOMAIN DigitVal
    THEN ParseDigits(Tail(s), 10 * acc + DigitVal[Head(s)], TRUE)
    ELSE IF seen THEN Some(acc) ELSE NaN

\* parseInt(string) with no radix, on inputs without a 0x prefix: skips leading
\* white space, takes an optional sign, reads decimal digits, ignores the rest
parseInt(s) ==
  LET t == TrimStart(s) IN
    IF t # <<>> /\ Head(t) = "-"
      THEN LET m == ParseDigits(Tail(t), 0, FALSE) IN
             IF m = NaN THEN NaN ELSE Some(0 - m[1])
      ELSE IF t # <<>> /\ Head(t) = "+"
        THEN ParseDigits(Tail(t), 0, FALSE)
        ELSE ParseDigits(t, 0, FALSE)

\* object spread { ...a, ...b }: b's keys are written after a's
Spread(a, b) ==
  [k \in DOMAIN a \cup DOMAIN b |-> IF k \in DOMAIN b THEN b[k] ELSE a[k]]

-----------------------------------------------------------------------------
(* github.ts *)

TypeError == [throw |-> "TypeError"]
Throws(r) == "throw" \in DOMAIN r

getRepositoryInfo(ctx) == [owner |-> ctx.repo.owner, repo |-> ctx.repo.repo]

\* variant: the sha of the trigger context instead of the pull request's head
getPullRequestContextAmbientSha(ctx) ==
  [prNumber |-> ctx.issue.number, sha |-> Some(ctx.sha)]

getPullRequestContext(ctx) ==
  LET prNumber == ctx.issue.number
      pull_request == ctx.payload.pull_request
  IN IF ~IsDefined(pull_request)
       THEN [prNumber |-> prNumber, sha |-> Undefined]
       ELSE IF ~IsDefined(pull_request[1].head)
         THEN TypeError
         ELSE [prNumber |-> prNumber, sha |-> pull_request[1].head[1].sha]

\* variant: the last associated pull request instead of the first
getCheckRunContextLast(ctx) ==
  LET actionEvent == ctx.payload.check_run[1]
      prs == actionEvent.pull_requests
      prNumber == IF IsDefined(prs) /\ Len(prs[1]) > 0
                    THEN prs[1][Len(prs[1])].number
                    ELSE Undefined
  IN [prNumber |-> prNumber, sha |-> actionEvent.head_sha]

getCheckRunContext(ctx) ==
  IF ~IsDefined(ctx.payload.check_run)
    THEN TypeError
    ELSE LET actionEvent == ctx.payload.check_run[1]
             prs == actionEvent.pull_requests
             prNumber == IF IsDefined(prs) /\ Len(prs[1]) > 0
                           THEN prs[1][1].number
                           ELSE Undefined
         IN [prNumber |-> prNumber, sha |-> actionEvent.head_sha]

\* variant: a table that also registers the push event
eventHandlersWithPush ==
  [check_run |-> "getCheckRunContext", pull_request |-> "getPullRequestContext",
   push |-> "getPullRequestContext"]

eventHandlers ==
  [check_run |-> "getCheckRunContext", pull_request |-> "getPullRequestContext"]

\* eventHandlers[eventName](context): calling an absent entry is a TypeError
CallHandler(handlers, ctx) ==
  IF ctx.eventName \notin DOMAIN handlers
    THEN TypeError
    ELSE IF handlers[ctx.eventName] = "getCheckRunContext"
      THEN getCheckRunContext(ctx)
      ELSE getPullRequestContext(ctx)

branchName(ref) == substring(ref, Len(RefsHeads))

allowedBranches == {Main, Develop}

PullsGetRequest(ctx, inp) ==
  [owner |-> getRepositoryInfo(ctx).owner,
   repo |-> getRepositoryInfo(ctx).repo,
   pull_number |-> parseInt(inp.pr_number)]

\* variant: the callback answers with the sha of the trigger context
ResponseInfoAmbientSha(response) == [sha |-> Some(context.sha)]

\* the .then callback of pulls.get
ResponseInfo(response) == [sha |-> Some(response.data.head.sha)]

\* github.ts:102
AmbientInfo(ctx) == [sha |-> Some(ctx.sha)]

-----------------------------------------------------------------------------
(* Trigger contexts *)

NoPayload == [pull_request |-> Undefined, check_run |-> Undefined]

Ambient == [repo : Repos, sha : Shas]

PullRequestPayloads ==
  { Undefined, Some([head |-> Undefined]) }
    \cup { Some([head |-> Some([sha |-> Some(s)])]) : s \in Shas }

CheckRunPayloads ==
  { Some([pull_requests |-> p, head_sha |-> Some(s)]) :
      p \in {Undefined} \cup { Some(q) : q \in SeqsOf([number : {Some(n) : n \in 1..MaxPr}], 0, MaxPulls) },
      s \in Shas }

MkContext(a, name, ref, num, payload) ==
  [eventName |-> name, ref |-> ref, sha |-> a.sha, repo |-> a.repo,
   issue |-> [number |-> num], payload |-> payload]

PullRequestContexts ==
  { MkContext(a, "pull_request", RefsHeads \o FeatureX, Some(n),
              [NoPayload EXCEPT !.pull_request = p]) :
      a \in Ambient, n \in 1..MaxPr, p \in PullRequestPayloads }

CheckRunContexts ==
  { MkContext(a, "check_run", RefsHeads \o FeatureX, Undefined,
              [NoPayload EXCEPT !.check_run = c]) :
      a \in Ambient, c \in CheckRunPayloads }

WorkflowDispatchContexts ==
  { MkContext(a, "workflow_dispatch", r, Undefined, NoPayload) :
      a \in Ambient, r \in Refs }

OtherContexts ==
  { MkContext(a, e, RefsHeads \o Main, Undefined, NoPayload) :
      a \in Ambient, e \in OtherEvents }

NoInputs == [token |-> "ghs_token", pr_number |-> <<>>]

-----------------------------------------------------------------------------
(* getGitHubContext as a state machine *)

NormInit ==
  /\ \/ /\ context \in PullRequestContexts \cup CheckRunContexts \cup OtherContexts
        /\ inputs = NoInputs
     \/ /\ context \in WorkflowDispatchContexts
        /\ inputs \in { [NoInputs EXCEPT !.pr_number = i] : i \in PrInputs }
  /\ pc = "init"
  /\ apiCalls = <<>>
  /\ apiState = "none"
  /\ apiResponse = Undefined
  /\ result = <<>>
  /\ error = Undefined

\* github.ts:32, eventName !== 'workflow_dispatch': the handler runs synchronously
GetContextByHandler ==
  /\ pc = "init"
  /\ context.eventName # "workflow_dispatch"
  /\ LET commitInfo == CallHandler(eventHandlers, context) IN
       IF Throws(commitInfo)
         THEN /\ pc' = "rejected"
              /\ error' = Some(commitInfo.throw)
              /\ result' = result
         ELSE /\ pc' = "returned"
              /\ result' = Spread(getRepositoryInfo(context), commitInfo)
              /\ error' = error
  /\ UNCHANGED <<context, inputs, apiCalls, apiState, apiResponse>>

\* github.ts:87-101: the branch is allow-listed, pulls.get is issued and awaited
DispatchLookup ==
  /\ pc = "init"
  /\ context.eventName = "workflow_dispatch"
  /\ branchName(context.ref) \in allowedBranches
  /\ apiCalls' = Append(apiCalls, PullsGetRequest(context, inputs))
  /\ apiState' = "pending"
  /\ pc' = "awaiting"
  /\ UNCHANGED <<context, inputs, apiResponse, result, error>>

\* github.ts:102: any other branch name
DispatchAmbient ==
  /\ pc = "init"
  /\ context.eventName = "workflow_dispatch"
  /\ branchName(context.ref) \notin allowedBranches
  /\ pc' = "returned"
  /\ result' = Spread(getRepositoryInfo(context), AmbientInfo(context))
  /\ UNCHANGED <<context, inputs, apiCalls, apiState, apiResponse, error>>

\* pulls.get fulfils: the .then callback runs, the await resumes, line 34 returns
PullsGetFulfilled ==
  /\ pc = "awaiting"
  /\ apiState = "pending"
  /\ \E s \in Shas :
       LET response == [data |-> [head |-> [sha |-> s]]] IN
         /\ apiResponse' = Some(response)
         /\ result' = Spread(getRepositoryInfo(context), ResponseInfo(response))
  /\ apiState' = "fulfilled"
  /\ pc' = "returned"
  /\ UNCHANGED <<context, inputs, apiCalls, error>>

\* variant: a failed lookup falls back to the sha of the trigger context
PullsGetRejectedFallback ==
  /\ pc = "awaiting"
  /\ apiState = "pending"
  /\ \E e \in ApiErrors : error' = Some(e)
  /\ apiState' = "rejected"
  /\ pc' = "returned"
  /\ result' = Spread(getRepositoryInfo(context), AmbientInfo(context))
  /\ UNCHANGED <<context, inputs, apiCalls, apiResponse>>

\* pulls.get rejects: nothing catches it, the await rethrows
PullsGetRejected ==
  /\ pc = "awaiting"
  /\ apiState = "pending"
  /\ \E e \in ApiErrors : error' = Some(e)
  /\ apiState' = "rejected"
  /\ pc' = "rejected"
  /\ UNCHANGED <<context, inputs, apiCalls, apiResponse, result>>

-----------------------------------------------------------------------------
(* trigger-pr-analysis.ts run() and analysis-input-resource triggerPrAnalysis *)

\* HTTP statuses axios resolves a request with (its default validateStatus
\* accepts 2xx only; anything else rejects the request promise)
NoContent == 204
ResolvedStatuses == {200, 201, NoContent}

RequestErrors == {"network", "status 500"}

UtilThrows == {"none", "isGithubEventValid", "getGithubContext"}

\* what the helpers imported from ./util do in one run: isGithubEventValid()
\* returns valid, getGithubContext() returns a record holding prNumber, one of
\* them may throw instead, and buildTriggerApiUrl may throw in the callback
Envs ==
  [valid : BOOLEAN,
   prNumber : {Undefined} \cup { Some(n) : n \in 1..MaxPr },
   throws : UtilThrows,
   urlThrows : BOOLEAN]

PrNotFound == "PR number not found. Please provide a valid PR number."
InvalidEvent == "Invalid GitHub event"

\* core.setFailed(message) called from `by`
setFailed(fs, by, message) == Append(fs, [by |-> by, message |-> message])

\* buildError(error) of ./util: reports the error as the action's failure
buildError(fs, by, err) == setFailed(fs, by, err)

NormIdle ==
  /\ context = MkContext([repo |-> [owner |-> "pixee", repo |-> "pixee-actions"],
                          sha |-> "abc123"],
                         "workflow_dispatch", RefsHeads \o Main, Undefined, NoPayload)
  /\ inputs = NoInputs
  /\ pc = "off"
  /\ apiCalls = <<>>
  /\ apiState = "none"
  /\ apiResponse = Undefined
  /\ result = <<>>
  /\ error = Undefined

RunIdle ==
  /\ env = <<>>
  /\ rpc = "off"
  /\ outputs = <<>>
  /\ failures = <<>>
  /\ triggerCalls = <<>>
  /\ tpc = "off"
  /\ posts = <<>>

RunInit ==
  /\ env \in Envs
  /\ rpc = "start"
  /\ outputs = [x \in {} |-> ""]
  /\ failures = <<>>
  /\ triggerCalls = <<>>
  /\ tpc = "idle"
  /\ posts = <<>>

\* trigger-pr-analysis.ts:6-7
RunStart ==
  /\ rpc = "start"
  /\ outputs' = Spread(outputs, [start_at |-> "startedAt"])
  /\ rpc' = "try"
  /\ UNCHANGED <<env, failures, triggerCalls, tpc, posts>>

\* trigger-pr-analysis.ts:10
RunCheckEvent ==
  /\ rpc = "try"
  /\ rpc' = IF env.throws = "isGithubEventValid" THEN "catch"
            ELSE IF env.valid THEN "context" ELSE "invalid"
  /\ UNCHANGED <<env, outputs, failures, triggerCalls, tpc, posts>>

\* trigger-pr-analysis.ts:11-13
RunGetContext ==
  /\ rpc = "context"
  /\ rpc' = IF env.throws = "getGithubContext" THEN "catch"
            ELSE IF IsDefined(env.prNumber) THEN "trigger" ELSE "notfound"
  /\ UNCHANGED <<env, outputs, failures, triggerCalls, tpc, posts>>

\* trigger-pr-analysis.ts:14-16: triggerPrAnalysis asks for the ID token and
\* returns at once; run() sets the status and returns
RunTrigger ==
  /\ rpc = "trigger"
  /\ triggerCalls' = Append(triggerCalls, env.prNumber[1])
  /\ tpc' = "token"
  /\ outputs' = Spread(outputs, [status |-> "success"])
  /\ rpc' = "done"
  /\ UNCHANGED <<env, failures, posts>>

\* trigger-pr-analysis.ts:18: no return follows, control reaches line 21
RunPrNotFound ==
  /\ rpc = "notfound"
  /\ failures' = setFailed(failures, "run", PrNotFound)
  /\ rpc' = "invalid"
  /\ UNCHANGED <<env, outputs, triggerCalls, tpc, posts>>

\* trigger-pr-analysis.ts:21
RunInvalid ==
  /\ rpc = "invalid"
  /\ failures' = setFailed(failures, "run", InvalidEvent)
  /\ rpc' = "done"
  /\ UNCHANGED <<env, outputs, triggerCalls, tpc, posts>>

\* trigger-pr-analysis.ts:22-24
RunCatch ==
  /\ rpc = "catch"
  /\ failures' = buildError(failures, "catch", env.throws)
  /\ rpc' = "done"
  /\ UNCHANGED <<env, outputs, triggerCalls, tpc, posts>>

\* part_000:44-51: the token arrives; callbacks run only once run() has
\* returned to the event loop
TokenResolved ==
  /\ rpc = "done"
  /\ tpc = "token"
  /\ IF env.urlThrows
       THEN /\ failures' = buildError(failures, "trigger", "buildTriggerApiUrl")
            /\ tpc' = "settled"
            /\ posts' = posts
       ELSE /\ posts' = Append(posts, [prNumber |-> triggerCalls[Len(triggerCalls)]])
            /\ tpc' = "post"
            /\ failures' = failures
  /\ UNCHANGED <<env, rpc, outputs, triggerCalls>>

\* part_000:44: tokenPromise.then has no rejection handler
TokenRejected ==
  /\ rpc = "done"
  /\ tpc = "token"
  /\ tpc' = "unhandled"
  /\ UNCHANGED <<env, rpc, outputs, failures, triggerCalls, posts>>

\* part_000:52-57
PostFulfilled ==
  /\ rpc = "done"
  /\ tpc = "post"
  /\ \E status \in ResolvedStatuses :
       failures' = IF status # NoContent
                     THEN setFailed(failures, "trigger", <<"Failed response status", status>>)
                     ELSE failures
  /\ tpc' = "settled"
  /\ UNCHANGED <<env, rpc, outputs, triggerCalls, posts>>

\* part_000:58
PostRejected ==
  /\ rpc = "done"
  /\ tpc = "post"
  /\ \E e \in RequestErrors : failures' = buildError(failures, "trigger", e)
  /\ tpc' = "settled"
  /\ UNCHANGED <<env, rpc, outputs, triggerCalls, posts>>

-----------------------------------------------------------------------------
(* Properties of getGitHubContext (specification Spec) *)

IsWorkflowDispatch == context.eventName = "workflow_dispatch"

\* what parseInt must give on each 'pr-number' input, written out
ExpectedPullNumber ==
  <<>> :> NaN @@ <<"1">> :> Some(1) @@ <<"2">> :> Some(2) @@ <<"1","2">> :> Some(12) @@
  <<" ","3">> :> Some(3) @@ <<"2","a">> :> Some(2) @@ <<"a","b">> :> NaN @@
  <<"-","1">> :> Some(0 - 1)

\* the ref with a leading refs/heads/ removed, unchanged when it has none
StripRefsHeads(ref) ==
  IF Len(ref) >= Len(RefsHeads) /\ SubSeq(ref, 1, Len(RefsHeads)) = RefsHeads
    THEN SubSeq(ref, Len(RefsHeads) + 1, Len(ref))
    ELSE ref

\* C1: on a workflow_dispatch event whose ref is refs/heads/main or
\* refs/heads/develop, pulls.get is called exactly once, with the ambient owner
\* and repo and the integer parsed from 'pr-number'; getGitHubContext returns
\* only after that call has fulfilled, with the response's head.sha as sha and
\* no prNumber field.
C1_DispatchLookupOnce ==
  (IsWorkflowDispatch /\ context.ref \in {RefsHeads \o Main, RefsHeads \o Develop}) =>
    /\ Len(apiCalls) <= 1
    /\ pc # "init" =>
         /\ Len(apiCalls) = 1
         /\ apiCalls[1] = [owner |-> context.repo.owner, repo |-> context.repo.repo,
                           pull_number |-> ExpectedPullNumber[inputs.pr_number]]
    /\ pc = "awaiting" => apiState = "pending"
    /\ pc = "returned" =>
         /\ apiState = "fulfilled"
         /\ DOMAIN result = {"owner", "repo", "sha"}
         /\ result.sha = Some(apiResponse[1].data.head.sha)

C1_Witness ==
  /\ IsWorkflowDispatch
  /\ context.ref = RefsHeads \o Main
  /\ inputs.pr_number = <<"1","2">>
  /\ pc = "returned"
  /\ result.sha # Some(context.sha)

\* C2: on a workflow_dispatch event whose ref, with the refs/heads/ prefix
\* stripped, is neither main nor develop (a tag ref included), no API call is
\* made and the record returned carries the ambient sha and no prNumber.
C2_OtherRefNoLookup ==
  (IsWorkflowDispatch /\ StripRefsHeads(context.ref) \notin {Main, Develop}) =>
    /\ apiCalls = <<>>
    /\ pc # "init" =>
         /\ pc = "returned"
         /\ result = [owner |-> context.repo.owner, repo |-> context.repo.repo,
                      sha |-> Some(context.sha)]

\* C3: on a check_run event the record returned has the check run's head_sha
\* and the number of the first entry of pull_requests, whatever follows it;
\* with pull_requests empty or absent prNumber is undefined and nothing throws.
C3_CheckRunFirstPullRequest ==
  (context.eventName = "check_run" /\ pc # "init") =>
    LET check_run == context.payload.check_run[1] IN
      /\ pc = "returned"
      /\ apiCalls = <<>>
      /\ result.sha = check_run.head_sha
      /\ "prNumber" \in DOMAIN result
      /\ IF check_run.pull_requests = Undefined \/ check_run.pull_requests = Some(<<>>)
           THEN result.prNumber = Undefined
           ELSE result.prNumber = Head(check_run.pull_requests[1]).number

C3_Witness ==
  /\ context.eventName = "check_run"
  /\ pc = "returned"
  /\ IsDefined(context.payload.check_run[1].pull_requests)
  /\ LET prs == context.payload.check_run[1].pull_requests[1] IN
       /\ Len(prs) = 2
       /\ prs[1].number # prs[2].number
       /\ result.prNumber = prs[1].number

C5_UnregisteredEventRejects ==
  (context.eventName \notin {"pull_request", "check_run", "workflow_dispatch"}) =>
    /\ pc \in {"init", "rejected"}
    /\ pc = "rejected" => error = Some("TypeError")
    /\ result = <<>>
    /\ apiCalls = <<>>

C5_Witness ==
  /\ context.eventName = "push"
  /\ pc = "rejected"
  /\ error = Some("TypeError")

\* C6: every record getGitHubContext returns has a sha that is present and
\* non-empty, and a prNumber that, when present, is a positive integer.
C6_ShaAlwaysPresent ==
  pc = "returned" =>
    /\ "sha" \in DOMAIN result
    /\ IsDefined(result.sha)
    /\ result.sha[1] # ""
    /\ ("prNumber" \in DOMAIN result /\ IsDefined(result.prNumber)) =>
         result.prNumber[1] > 0

\* C7: getGitHubContext rejects only on an event kind without a handler or on
\* a failed pull-request lookup; a pull_request event without pull_request, or
\* without pull_request.head, returns a record whose sha is undefined.
C7_PartialPayloadTolerated ==
  /\ pc = "rejected" =>
       \/ context.eventName \notin {"pull_request", "check_run", "workflow_dispatch"}
       \/ apiState = "rejected"
  /\ (/\ context.eventName = "pull_request"
      /\ pc # "init"
      /\ \/ ~IsDefined(context.payload.pull_request)
         \/ ~IsDefined(context.payload.pull_request[1].head)) =>
       /\ pc = "returned"
       /\ result.sha = Undefined

\* C8: when pulls.get fails, getGitHubContext rejects with that failure; the
\* call has been issued exactly once and no record is returned, in particular
\* no fallback carrying the ambient sha.
C8_LookupFailurePropagates ==
  apiState = "rejected" =>
    /\ pc = "rejected"
    /\ IsDefined(error) /\ error[1] \in ApiErrors
    /\ Len(apiCalls) = 1
    /\ result = <<>>

C8_Witness ==
  /\ apiState = "rejected"
  /\ pc = "rejected"
  /\ error = Some("404")
  /\ Len(apiCalls) = 1

-----------------------------------------------------------------------------
(* Properties of the trigger-pr-analysis entry point (specification SpecRun) *)

ReportedBy(by) == SelectSeq(failures, LAMBDA f : f.by = by)

StatusIsSuccess == "status" \in DOMAIN outputs /\ outputs.status = "success"

\* C9: a run in which no helper throws reports exactly one outcome: success
\* with one triggerPrAnalysis call, or the failure 'PR number not found...'
\* alone, or the failure 'Invalid GitHub event' alone (never for a valid
\* event); triggerPrAnalysis is never called without a PR number.
C9_ExactlyOneOutcome ==
  (rpc = "done" /\ env.throws = "none") =>
    /\ (env.valid /\ IsDefined(env.prNumber)) =>
         /\ triggerCalls = <<env.prNumber[1]>>
         /\ StatusIsSuccess
         /\ ReportedBy("run") = <<>>
    /\ (env.valid /\ ~IsDefined(env.prNumber)) =>
         /\ triggerCalls = <<>>
         /\ ~StatusIsSuccess
         /\ ReportedBy("run") = <<[by |-> "run", message |-> PrNotFound]>>
    /\ ~env.valid =>
         /\ triggerCalls = <<>>
         /\ ~StatusIsSuccess
         /\ ReportedBy("run") = <<[by |-> "run", message |-> InvalidEvent]>>

\* C10: the status 'success' is set only after the trigger POST has completed
\* with 204: in no state is the status 'success' while the POST is unfinished
\* or a failure of the trigger has been reported.
C10_SuccessOnlyAfter204 ==
  (rpc # "off" /\ StatusIsSuccess) =>
    /\ tpc = "settled"
    /\ ReportedBy("trigger") = <<>>

-----------------------------------------------------------------------------
(* Specifications *)

Init == NormInit /\ RunIdle

Next ==
  \/ GetContextByHandler /\ UNCHANGED rvars
  \/ DispatchLookup /\ UNCHANGED rvars
  \/ DispatchAmbient /\ UNCHANGED rvars
  \/ PullsGetFulfilled /\ UNCHANGED rvars
  \/ PullsGetRejected /\ UNCHANGED rvars

Spec == Init /\ [][Next]_vars

InitRun == NormIdle /\ RunInit

NextRun ==
  \/ RunStart /\ UNCHANGED nvars
  \/ RunCheckEvent /\ UNCHANGED nvars
  \/ RunGetContext /\ UNCHANGED nvars
  \/ RunTrigger /\ UNCHANGED nvars
  \/ RunPrNotFound /\ UNCHANGED nvars
  \/ RunInvalid /\ UNCHANGED nvars
  \/ RunCatch /\ UNCHANGED nvars
  \/ TokenResolved /\ UNCHANGED nvars
  \/ TokenRejected /\ UNCHANGED nvars
  \/ PostFulfilled /\ UNCHANGED nvars
  \/ PostRejected /\ UNCHANGED nvars

SpecRun == InitRun /\ [][NextRun]_vars

====
